---- MODULE Spec2Model ----
(***************************************************************************)
(* State-machine model of sefs-cli (sefs-cli/app/src/main.rs): the zip,    *)
(* unzip and mount workflows of main(), the Ctrl-C unmount handler that    *)
(* runs on its own thread, and the host objects they act on.               *)
(*                                                                         *)
(* The main thread is followed statement by statement through `pc`; every  *)
(* `?` of the source is a branch to pc = "return" with the error kept in   *)
(* `result`.  The handler thread is followed through `hpc`.  Collaborators *)
(* whose code is outside main.rs (enclave, SEFS, UnionFS, fuse, the host   *)
(* unmount facility, zip_dir/unzip_dir) are modelled by their possible     *)
(* outcomes, chosen nondeterministically.                                  *)
(***************************************************************************)
EXTENDS Integers, Sequences, FiniteSets, TLC

VARIABLES
    cmd,                \* opt.cmd: which subcommand was parsed
    protect_integrity,  \* the -p flag of zip / unzip
    key,                \* the -k option of zip / unzip (Option<String>)
    host,               \* host file system: what each path currently is
    host0,              \* the host file system when the process started
    enclave,            \* the enclave handle held by main
    pc,                 \* position of the main thread
    result,             \* value main returns: "Ok" or an error kind
    exited,             \* the process has terminated
    exitStatus,         \* its exit status (NoStatus while running)
    out,                \* lines printed with println!
    root_mac,           \* bytes returned by sefs_fs.root_mac()
    root_mac_str,       \* the string built from them
    mode,               \* EncryptMode resolved from the parameters
    devices,            \* SgxStorage devices constructed so far
    calls,              \* fallible collaborator calls made so far, in order
    union_fs,           \* vector handed to UnionFS::new
    served,             \* filesystem stack handed to fuse::mount
    handlerDir,         \* mnt_dir captured by the registered Ctrl-C handler
    hpc,                \* position of the Ctrl-C handler thread
    firings,            \* number of handler firings so far
    mounted             \* state of the mount point served by fuse::mount

vars == <<cmd, protect_integrity, key, host, host0, enclave, pc, result, exited,
          exitStatus, out, root_mac, root_mac_str, mode, devices, calls, union_fs, served, handlerDir,
          hpc, firings, mounted>>

----------------------------------------------------------------------------
(* Bounds *)

\* number of Ctrl-C signals delivered to the process
MaxFirings == 2

\* longest root MAC considered
MaxMacLen == 2

----------------------------------------------------------------------------
(* Program constants and value spaces *)

\* number of bytes in an encryption key
KeyBytes == 16

NoStatus == -1

Paths == {"dir", "image", "container"}

\* what a host path can be
HostKinds == {"absent", "file", "dir_data", "dir_image"}

IsDir(k) == k \in {"dir_empty", "dir_data", "dir_partial", "dir_image"}

Cmds == {"zip", "unzip", "mount"}

\* Option<String>
NoKey == [some |-> FALSE, str |-> <<>>]

SomeKey(s) == [some |-> TRUE, str |-> s]

\* sgx_dev::EncryptMode
IntegrityOnly == [tag |-> "IntegrityOnly", key |-> <<>>]

EncryptAutoKey == [tag |-> "EncryptAutoKey", key |-> <<>>]

EncryptWithKey(k) == [tag |-> "EncryptWithKey", key |-> k]

\* no mode resolved yet
NoMode == [tag |-> "none", key |-> <<>>]

----------------------------------------------------------------------------
(* Protection-mode resolver: sgx_dev::EncryptMode::from_parameters.        *)
(* Its code is in module sgx_dev, so it is written from its contract.      *)

HexDigits == <<"0","1","2","3","4","5","6","7","8","9",
               "a","b","c","d","e","f">>

UpperHexDigits == <<"0","1","2","3","4","5","6","7","8","9",
                    "A","B","C","D","E","F">>

IsHex(c) == \E i \in 1..16 : HexDigits[i] = c \/ UpperHexDigits[i] = c

HexVal(c) == (CHOOSE i \in 1..16 : HexDigits[i] = c \/ UpperHexDigits[i] = c) - 1

\* s is KeyBytes groups of two hex digits, separated by single dashes
KeyWellFormed(s) ==
    /\ Len(s) = 3 * KeyBytes - 1
    /\ \A i \in 1..Len(s) : IF i % 3 = 0 THEN s[i] = "-" ELSE IsHex(s[i])

\* the bytes of a well-formed key
KeyBytesOf(s) ==
    [i \in 1..KeyBytes |-> 16 * HexVal(s[3 * i - 2]) + HexVal(s[3 * i - 1])]

\* the set of results the resolver can give
FromParameters(pi, k) ==
    IF k.some
    THEN IF KeyWellFormed(k.str)
         THEN {[ok |-> TRUE, mode |-> EncryptWithKey(KeyBytesOf(k.str)), err |-> "none"]}
         ELSE {[ok |-> FALSE, mode |-> IntegrityOnly, err |-> "InvalidKeyFormat"]}
    ELSE IF pi
         THEN {[ok |-> TRUE, mode |-> IntegrityOnly, err |-> "none"]}
         \* no flag and no key: the contract names no mode for this input
         ELSE {[ok |-> TRUE, mode |-> EncryptAutoKey, err |-> "none"],
               [ok |-> FALSE, mode |-> IntegrityOnly, err |-> "InvalidParameters"]}

----------------------------------------------------------------------------
(* Command lines considered *)

RECURSIVE JoinGroups(_)
JoinGroups(gs) ==
    IF gs = <<>> THEN <<>>
    ELSE IF Len(gs) = 1 THEN Head(gs)
         ELSE Head(gs) \o <<"-">> \o JoinGroups(Tail(gs))

CanonicalGroups == [i \in 1..KeyBytes |-> <<HexDigits[i], HexDigits[i]>>]

\* "00-11-22-33-44-55-66-77-88-99-aa-bb-cc-dd-ee-ff"
CanonicalKey == JoinGroups(CanonicalGroups)

\* one group short
ShortKey == JoinGroups(SubSeq(CanonicalGroups, 1, KeyBytes - 1))

\* a character that is no hex digit
BadCharKey == JoinGroups([CanonicalGroups EXCEPT ![3] = <<"g", "2">>])

\* a doubled separator
BadSepKey == JoinGroups([CanonicalGroups EXCEPT ![5] = <<>>])

KeyArgs == {NoKey, SomeKey(CanonicalKey), SomeKey(ShortKey),
            SomeKey(BadCharKey), SomeKey(BadSepKey)}

----------------------------------------------------------------------------
(* Helpers *)

Call(op, arg, ok) == [op |-> op, arg |-> arg, ok |-> ok]

Device(p, m) == [path |-> p, mode |-> m]

Running == ~exited

\* `?` on an Err: main returns the error
Abort(e) == pc' = "return" /\ result' = e

Init ==
    /\ host \in [Paths -> HostKinds]
    /\ host0 = host
    /\ cmd = "none"
    /\ protect_integrity = FALSE
    /\ key = NoKey
    /\ enclave = "none"
    /\ pc = "args"
    /\ result = "none"
    /\ exited = FALSE
    /\ exitStatus = NoStatus
    /\ out = <<>>
    /\ root_mac = <<>>
    /\ root_mac_str = <<>>
    /\ mode = NoMode
    /\ devices = <<>>
    /\ calls = <<>>
    /\ union_fs = <<>>
    /\ served = <<>>
    /\ handlerDir = "none"
    /\ hpc = "idle"
    /\ firings = 0
    /\ mounted = "no"

----------------------------------------------------------------------------
(* main: argument parsing and enclave initialisation *)

\* FromArgs with a validator rejecting zip / unzip without -p and without -k
FromArgs_Validating ==
    /\ Running /\ pc = "args"
    /\ \E c \in Cmds, pi \in BOOLEAN, k \in KeyArgs :
          /\ c = "mount" => (pi = FALSE /\ k = NoKey)
          /\ cmd' = c
          /\ protect_integrity' = pi
          /\ key' = k
          /\ IF c # "mount" /\ ~pi /\ ~k.some
             THEN /\ pc' = "done"
                  /\ result' = "CliValidationError"
                  /\ exited' = TRUE
                  /\ exitStatus' = 1
             ELSE /\ pc' = "init"
                  /\ UNCHANGED <<result, exited, exitStatus>>
    /\ UNCHANGED <<root_mac, root_mac_str, host0, host, enclave, out, mode, devices,
                   calls, union_fs, served, handlerDir, hpc, firings, mounted>>

\* Opt::from_args(): every well-formed command line of Cmd is accepted
FromArgs ==
    /\ Running /\ pc = "args"
    /\ \E c \in Cmds, pi \in BOOLEAN, k \in KeyArgs :
          /\ c = "mount" => (pi = FALSE /\ k = NoKey)
          /\ cmd' = c
          /\ protect_integrity' = pi
          /\ key' = k
    /\ pc' = "init"
    /\ UNCHANGED <<root_mac, root_mac_str, host0, host, enclave, result, exited, exitStatus, out, mode, devices,
                   calls, union_fs, served, handlerDir, hpc, firings, mounted>>

\* InitEnclave going on to the workflow after a failed initialisation
InitEnclave_Proceed ==
    /\ Running /\ pc = "init"
    /\ \E ok \in BOOLEAN :
          /\ calls' = Append(calls, Call("init_enclave", "enclave", ok))
          /\ enclave' = IF ok THEN "eid" ELSE enclave
          /\ out' = Append(out, IF ok THEN "init_ok" ELSE "init_failed")
          /\ pc' = cmd
          /\ UNCHANGED result
    /\ UNCHANGED <<root_mac, root_mac_str, host0, cmd, protect_integrity, key, host, exited, exitStatus, mode,
                   devices, union_fs, served, handlerDir, hpc, firings, mounted>>

\* enclave::init_enclave and the match on its result
InitEnclave ==
    /\ Running /\ pc = "init"
    /\ \E ok \in BOOLEAN :
          /\ calls' = Append(calls, Call("init_enclave", "enclave", ok))
          /\ IF ok
             THEN /\ enclave' = "eid"
                  /\ out' = Append(out, "init_ok")
                  /\ pc' = cmd
                  /\ UNCHANGED result
             ELSE /\ out' = Append(out, "init_failed")
                  /\ Abort("EnclaveInitError")
                  /\ UNCHANGED enclave
    /\ UNCHANGED <<root_mac, root_mac_str, host0, cmd, protect_integrity, key, host, exited, exitStatus, mode,
                   devices, union_fs, served, handlerDir, hpc, firings, mounted>>

----------------------------------------------------------------------------
(* Outcomes of the collaborators *)

\* std::fs::create_dir(p): fails with AlreadyExists when p exists
CreateDirOutcomes(k) ==
    IF k # "absent" THEN {"AlreadyExists"} ELSE {"Ok", "IoError"}

\* sefs::SEFS::open on a device over a path of kind k
OpenOutcomes(k) ==
    IF k = "dir_image" THEN {"Ok", "AuthenticationFailed", "CorruptImage"}
    ELSE IF k = "absent" THEN {"NotFound"}
    ELSE {"CorruptImage"}

\* sefs::SEFS::create on a device over a freshly created directory
CreateFsOutcomes == {"Ok", "StorageInitError"}

\* zip_dir(dir, root): reads the host directory of kind k
ZipDirOutcomes(k) == IF IsDir(k) THEN {"Ok", "IoError"} ELSE {"NotFound"}

\* unzip_dir(dir, root)
UnzipDirOutcomes == {"Ok", "IoError"}

----------------------------------------------------------------------------
(* main: Cmd::Zip *)

\* ZipCreateDir with the result of create_dir dropped
ZipCreateDir_IgnoreErr ==
    /\ Running /\ pc = "zip"
    /\ \E r \in CreateDirOutcomes(host["image"]) :
          /\ calls' = Append(calls, Call("create_dir", "image", r = "Ok"))
          /\ host' = IF r = "Ok" THEN [host EXCEPT !["image"] = "dir_empty"] ELSE host
          /\ pc' = "zip_resolve"
          /\ UNCHANGED result
    /\ UNCHANGED <<root_mac, root_mac_str, host0, cmd, protect_integrity, key, enclave, exited, exitStatus, out,
                   mode, devices, union_fs, served, handlerDir, hpc, firings,
                   mounted>>

\* std::fs::create_dir(&image)?
ZipCreateDir ==
    /\ Running /\ pc = "zip"
    /\ \E r \in CreateDirOutcomes(host["image"]) :
          /\ calls' = Append(calls, Call("create_dir", "image", r = "Ok"))
          /\ IF r = "Ok"
             THEN /\ host' = [host EXCEPT !["image"] = "dir_empty"]
                  /\ pc' = "zip_resolve"
                  /\ UNCHANGED result
             ELSE /\ Abort(r)
                  /\ UNCHANGED host
    /\ UNCHANGED <<root_mac, root_mac_str, host0, cmd, protect_integrity, key, enclave, exited, exitStatus, out,
                   mode, devices, union_fs, served, handlerDir, hpc, firings,
                   mounted>>

\* ZipResolve falling back to a default mode when the resolver fails
ZipResolve_Fallback ==
    /\ Running /\ pc = "zip_resolve"
    /\ \E r \in FromParameters(protect_integrity, key) :
          /\ calls' = Append(calls, Call("from_parameters", "zip", r.ok))
          /\ mode' = IF r.ok THEN r.mode ELSE EncryptAutoKey
          /\ pc' = "zip_create"
          /\ UNCHANGED result
    /\ UNCHANGED <<root_mac, root_mac_str, host0, cmd, protect_integrity, key, host, enclave, exited, exitStatus,
                   out, devices, union_fs, served, handlerDir, hpc, firings,
                   mounted>>

\* let mode = EncryptMode::from_parameters(protect_integrity, key)?
ZipResolve ==
    /\ Running /\ pc = "zip_resolve"
    /\ \E r \in FromParameters(protect_integrity, key) :
          /\ calls' = Append(calls, Call("from_parameters", "zip", r.ok))
          /\ IF r.ok
             THEN /\ mode' = r.mode
                  /\ pc' = "zip_create"
                  /\ UNCHANGED result
             ELSE /\ Abort(r.err)
                  /\ UNCHANGED mode
    /\ UNCHANGED <<root_mac, root_mac_str, host0, cmd, protect_integrity, key, host, enclave, exited, exitStatus,
                   out, devices, union_fs, served, handlerDir, hpc, firings,
                   mounted>>

\* ZipCreateFs removing the image directory when SEFS::create fails
ZipCreateFs_Cleanup ==
    /\ Running /\ pc = "zip_create"
    /\ devices' = Append(devices, Device("image", mode))
    /\ \E r \in CreateFsOutcomes :
          /\ calls' = Append(calls, Call("sefs_create", "image", r = "Ok"))
          /\ IF r = "Ok"
             THEN /\ host' = [host EXCEPT !["image"] = "dir_image"]
                  /\ pc' = "zip_copy"
                  /\ UNCHANGED result
             ELSE /\ host' = [host EXCEPT !["image"] = "absent"]
                  /\ Abort(r)
    /\ UNCHANGED <<root_mac, root_mac_str, host0, cmd, protect_integrity, key,
                   enclave, exited, exitStatus, out, mode, union_fs, served,
                   handlerDir, hpc, firings, mounted>>

\* SgxStorage::new(eid, &image, mode); SEFS::create(device, ..)?
ZipCreateFs ==
    /\ Running /\ pc = "zip_create"
    /\ devices' = Append(devices, Device("image", mode))
    /\ \E r \in CreateFsOutcomes :
          /\ calls' = Append(calls, Call("sefs_create", "image", r = "Ok"))
          /\ IF r = "Ok"
             THEN /\ host' = [host EXCEPT !["image"] = "dir_image"]
                  /\ pc' = "zip_copy"
                  /\ UNCHANGED result
             ELSE /\ \E k \in {"dir_empty", "dir_partial"} :
                        host' = [host EXCEPT !["image"] = k]
                  /\ Abort(r)
    /\ UNCHANGED <<root_mac, root_mac_str, host0, cmd, protect_integrity, key, enclave, exited, exitStatus, out,
                   mode, union_fs, served, handlerDir, hpc, firings, mounted>>

\* zip_dir(&dir, sefs_fs.root_inode())?
ZipCopy ==
    /\ Running /\ pc = "zip_copy"
    /\ \E r \in ZipDirOutcomes(host["dir"]) :
          /\ calls' = Append(calls, Call("zip_dir", "dir", r = "Ok"))
          /\ IF r = "Ok"
             THEN pc' = "zip_report" /\ UNCHANGED result
             ELSE Abort(r)
    /\ UNCHANGED <<root_mac, root_mac_str, host0, cmd, protect_integrity, key, host, enclave, exited, exitStatus,
                   out, mode, devices, union_fs, served, handlerDir, hpc, firings,
                   mounted>>

\* byte values considered for the root MAC
MacBytes == {0, 9, 10, 15, 16, 171, 255}

MacInputs == UNION {[1..n -> MacBytes] : n \in 0..MaxMacLen}

\* format!("{:x}", byte): no zero padding
Hex2_NoPad(b) ==
    IF b < 16 THEN <<HexDigits[b + 1]>>
    ELSE <<HexDigits[(b \div 16) + 1], HexDigits[(b % 16) + 1]>>

\* format!("{:02x}", byte)
Hex2(b) == <<HexDigits[(b \div 16) + 1], HexDigits[(b % 16) + 1]>>

\* the loop over root_mac().iter().enumerate(), from 0-based index i on
RECURSIVE RootMacLoop(_, _, _)
RootMacLoop(mac, i, s) ==
    IF i >= Len(mac) THEN s
    ELSE RootMacLoop(mac, i + 1,
                     (IF i # 0 THEN s \o <<"-">> ELSE s) \o Hex2(mac[i + 1]))

\* let root_mac_str = { let mut s = String::from(""); for .. ; s }
RootMacStr(mac) == RootMacLoop(mac, 0, <<>>)

\* ZipReport printing the root MAC only when no key was given
ZipReport_NoKeyOnly ==
    /\ Running /\ pc = "zip_report"
    /\ IF protect_integrity /\ ~key.some
       THEN \E mac \in MacInputs :
               /\ root_mac' = mac
               /\ root_mac_str' = RootMacStr(mac)
               /\ out' = out \o <<"encrypt_ok", "root_mac">>
       ELSE /\ out' = Append(out, "encrypt_ok")
            /\ UNCHANGED <<root_mac, root_mac_str>>
    /\ pc' = "return"
    /\ result' = "Ok"
    /\ UNCHANGED <<host0, cmd, protect_integrity, key, host, enclave, exited, exitStatus,
                   mode, devices, calls, union_fs, served, handlerDir, hpc,
                   firings, mounted>>

\* the success message and, under protect_integrity, the root MAC
ZipReport ==
    /\ Running /\ pc = "zip_report"
    /\ IF protect_integrity
       THEN \E mac \in MacInputs :
               /\ root_mac' = mac
               /\ root_mac_str' = RootMacStr(mac)
               /\ out' = out \o <<"encrypt_ok", "root_mac">>
       ELSE /\ out' = Append(out, "encrypt_ok")
            /\ UNCHANGED <<root_mac, root_mac_str>>
    /\ pc' = "return"
    /\ result' = "Ok"
    /\ UNCHANGED <<host0, cmd, protect_integrity, key, host, enclave, exited, exitStatus,
                   mode, devices, calls, union_fs, served, handlerDir, hpc,
                   firings, mounted>>

----------------------------------------------------------------------------
(* main: Cmd::Unzip *)

\* let mode = EncryptMode::from_parameters(protect_integrity, key)?
UnzipResolve ==
    /\ Running /\ pc = "unzip"
    /\ \E r \in FromParameters(protect_integrity, key) :
          /\ calls' = Append(calls, Call("from_parameters", "unzip", r.ok))
          /\ IF r.ok
             THEN /\ mode' = r.mode
                  /\ pc' = "unzip_open"
                  /\ UNCHANGED result
             ELSE /\ Abort(r.err)
                  /\ UNCHANGED mode
    /\ UNCHANGED <<root_mac, root_mac_str, host0, cmd, protect_integrity, key, host, enclave, exited, exitStatus,
                   out, devices, union_fs, served, handlerDir, hpc, firings,
                   mounted>>

\* UnzipOpen with the target directory created before the open
UnzipOpen_MkdirFirst ==
    /\ Running /\ pc = "unzip_open"
    /\ devices' = Append(devices, Device("image", mode))
    /\ host' = IF host["dir"] = "absent"
               THEN [host EXCEPT !["dir"] = "dir_empty"] ELSE host
    /\ \E r \in OpenOutcomes(host["image"]) :
          /\ calls' = calls \o <<Call("create_dir", "dir", host["dir"] = "absent"),
                                 Call("sefs_open", "image", r = "Ok")>>
          /\ IF r = "Ok"
             THEN pc' = "unzip_copy" /\ UNCHANGED result
             ELSE Abort(r)
    /\ UNCHANGED <<root_mac, root_mac_str, host0, cmd, protect_integrity, key,
                   enclave, exited, exitStatus, out, mode, union_fs, served,
                   handlerDir, hpc, firings, mounted>>

\* UnzipOpen trying the open again after a failure
UnzipOpen_Retry ==
    /\ Running /\ pc = "unzip_open"
    /\ devices' = Append(devices, Device("image", mode))
    /\ \E r \in OpenOutcomes(host["image"]) :
          /\ calls' = Append(calls, Call("sefs_open", "image", r = "Ok"))
          /\ pc' = IF r = "Ok" THEN "unzip_mkdir" ELSE "unzip_open"
          /\ UNCHANGED result
    /\ UNCHANGED <<root_mac, root_mac_str, host0, cmd, protect_integrity, key, host,
                   enclave, exited, exitStatus, out, mode, union_fs, served,
                   handlerDir, hpc, firings, mounted>>

\* SgxStorage::new(eid, &image, mode); SEFS::open(device, ..)?
UnzipOpen ==
    /\ Running /\ pc = "unzip_open"
    /\ devices' = Append(devices, Device("image", mode))
    /\ \E r \in OpenOutcomes(host["image"]) :
          /\ calls' = Append(calls, Call("sefs_open", "image", r = "Ok"))
          /\ IF r = "Ok"
             THEN pc' = "unzip_mkdir" /\ UNCHANGED result
             ELSE Abort(r)
    /\ UNCHANGED <<root_mac, root_mac_str, host0, cmd, protect_integrity, key, host, enclave, exited, exitStatus,
                   out, mode, union_fs, served, handlerDir, hpc, firings, mounted>>

\* UnzipCreateDir with the result of create_dir dropped
UnzipCreateDir_IgnoreErr ==
    /\ Running /\ pc = "unzip_mkdir"
    /\ \E r \in CreateDirOutcomes(host["dir"]) :
          /\ calls' = Append(calls, Call("create_dir", "dir", r = "Ok"))
          /\ host' = IF r = "Ok" THEN [host EXCEPT !["dir"] = "dir_empty"] ELSE host
          /\ pc' = "unzip_copy"
          /\ UNCHANGED result
    /\ UNCHANGED <<root_mac, root_mac_str, host0, cmd, protect_integrity, key, enclave, exited, exitStatus, out,
                   mode, devices, union_fs, served, handlerDir, hpc, firings,
                   mounted>>

\* std::fs::create_dir(&dir)?
UnzipCreateDir ==
    /\ Running /\ pc = "unzip_mkdir"
    /\ \E r \in CreateDirOutcomes(host["dir"]) :
          /\ calls' = Append(calls, Call("create_dir", "dir", r = "Ok"))
          /\ IF r = "Ok"
             THEN /\ host' = [host EXCEPT !["dir"] = "dir_empty"]
                  /\ pc' = "unzip_copy"
                  /\ UNCHANGED result
             ELSE /\ Abort(r)
                  /\ UNCHANGED host
    /\ UNCHANGED <<root_mac, root_mac_str, host0, cmd, protect_integrity, key, enclave, exited, exitStatus, out,
                   mode, devices, union_fs, served, handlerDir, hpc, firings,
                   mounted>>

\* unzip_dir(&dir, sefs_fs.root_inode())?
UnzipCopy ==
    /\ Running /\ pc = "unzip_copy"
    /\ \E r \in UnzipDirOutcomes :
          /\ calls' = Append(calls, Call("unzip_dir", "dir", r = "Ok"))
          /\ IF r = "Ok"
             THEN /\ host' = [host EXCEPT !["dir"] = "dir_data"]
                  /\ pc' = "unzip_report"
                  /\ UNCHANGED result
             ELSE /\ \E k \in {"dir_empty", "dir_partial"} :
                        host' = [host EXCEPT !["dir"] = k]
                  /\ Abort(r)
    /\ UNCHANGED <<root_mac, root_mac_str, host0, cmd, protect_integrity, key, enclave, exited, exitStatus, out,
                   mode, devices, union_fs, served, handlerDir, hpc, firings,
                   mounted>>

\* println!("Decrypt the SEFS image successfully")
UnzipReport ==
    /\ Running /\ pc = "unzip_report"
    /\ out' = Append(out, "decrypt_ok")
    /\ pc' = "return"
    /\ result' = "Ok"
    /\ UNCHANGED <<root_mac, root_mac_str, host0, cmd, protect_integrity, key, host, enclave, exited, exitStatus,
                   mode, devices, calls, union_fs, served, handlerDir, hpc,
                   firings, mounted>>

----------------------------------------------------------------------------
(* main: Cmd::Mount *)

\* image_fs: SgxStorage::new(eid, &image, IntegrityOnly); SEFS::open(..)?
MountOpenImage ==
    /\ Running /\ pc = "mount"
    /\ devices' = Append(devices, Device("image", IntegrityOnly))
    /\ \E r \in OpenOutcomes(host["image"]) :
          /\ calls' = Append(calls, Call("sefs_open", "image", r = "Ok"))
          /\ IF r = "Ok"
             THEN pc' = "mount_handler" /\ UNCHANGED result
             ELSE Abort(r)
    /\ UNCHANGED <<root_mac, root_mac_str, host0, cmd, protect_integrity, key, host, enclave, exited, exitStatus,
                   out, mode, union_fs, served, handlerDir, hpc, firings, mounted>>

\* MountSetHandler going on to the mount when the registration fails
MountSetHandler_IgnoreErr ==
    /\ Running /\ pc = "mount_handler"
    /\ \E ok \in BOOLEAN :
          /\ calls' = Append(calls, Call("set_handler", "dir", ok))
          /\ handlerDir' = IF ok THEN "dir" ELSE handlerDir
          /\ pc' = "mount_isdir"
          /\ UNCHANGED result
    /\ UNCHANGED <<root_mac, root_mac_str, host0, cmd, protect_integrity, key, host, enclave, exited, exitStatus,
                   out, mode, devices, union_fs, served, hpc, firings, mounted>>

\* let mnt_dir = dir.clone(); ctrlc::set_handler(move || ..)?
MountSetHandler ==
    /\ Running /\ pc = "mount_handler"
    /\ \E ok \in BOOLEAN :
          /\ calls' = Append(calls, Call("set_handler", "dir", ok))
          /\ IF ok
             THEN /\ handlerDir' = "dir"
                  /\ pc' = "mount_isdir"
                  /\ UNCHANGED result
             ELSE /\ Abort("HandlerError")
                  /\ UNCHANGED handlerDir
    /\ UNCHANGED <<root_mac, root_mac_str, host0, cmd, protect_integrity, key, host, enclave, exited, exitStatus,
                   out, mode, devices, union_fs, served, hpc, firings, mounted>>

\* if container.is_dir() { .. } else { .. }
MountIsDir ==
    /\ Running /\ pc = "mount_isdir"
    /\ pc' = IF IsDir(host["container"]) THEN "mount_container" ELSE "mount_serve_image"
    /\ UNCHANGED <<root_mac, root_mac_str, host0, cmd, protect_integrity, key, host, enclave, result, exited,
                   exitStatus, out, mode, devices, calls, union_fs, served,
                   handlerDir, hpc, firings, mounted>>

\* MountOpenContainer with the mode of the image device
MountOpenContainer_ImageMode ==
    /\ Running /\ pc = "mount_container"
    /\ devices' = Append(devices, Device("container", IntegrityOnly))
    /\ \E r \in OpenOutcomes(host["container"]) :
          /\ calls' = Append(calls, Call("sefs_open", "container", r = "Ok"))
          /\ IF r = "Ok"
             THEN pc' = "mount_union" /\ UNCHANGED result
             ELSE Abort(r)
    /\ UNCHANGED <<root_mac, root_mac_str, host0, cmd, protect_integrity, key, host, enclave, exited, exitStatus,
                   out, mode, union_fs, served, handlerDir, hpc, firings, mounted>>

\* container_fs: SgxStorage::new(eid, &container, EncryptAutoKey); SEFS::open(..)?
MountOpenContainer ==
    /\ Running /\ pc = "mount_container"
    /\ devices' = Append(devices, Device("container", EncryptAutoKey))
    /\ \E r \in OpenOutcomes(host["container"]) :
          /\ calls' = Append(calls, Call("sefs_open", "container", r = "Ok"))
          /\ IF r = "Ok"
             THEN pc' = "mount_union" /\ UNCHANGED result
             ELSE Abort(r)
    /\ UNCHANGED <<root_mac, root_mac_str, host0, cmd, protect_integrity, key, host, enclave, exited, exitStatus,
                   out, mode, union_fs, served, handlerDir, hpc, firings, mounted>>

\* MountUnion with the two filesystems in the other order
MountUnion_Swapped ==
    /\ Running /\ pc = "mount_union"
    /\ union_fs' = <<"image_fs", "container_fs">>
    /\ \E ok \in BOOLEAN :
          /\ calls' = Append(calls, Call("unionfs_new", "container", ok))
          /\ IF ok
             THEN pc' = "mount_serve_union" /\ UNCHANGED result
             ELSE Abort("CompositionError")
    /\ UNCHANGED <<root_mac, root_mac_str, host0, cmd, protect_integrity, key, host, enclave, exited, exitStatus,
                   out, mode, devices, served, handlerDir, hpc, firings, mounted>>

\* unionfs::UnionFS::new(vec![container_fs, image_fs])?
MountUnion ==
    /\ Running /\ pc = "mount_union"
    /\ union_fs' = <<"container_fs", "image_fs">>
    /\ \E ok \in BOOLEAN :
          /\ calls' = Append(calls, Call("unionfs_new", "container", ok))
          /\ IF ok
             THEN pc' = "mount_serve_union" /\ UNCHANGED result
             ELSE Abort("CompositionError")
    /\ UNCHANGED <<root_mac, root_mac_str, host0, cmd, protect_integrity, key, host, enclave, exited, exitStatus,
                   out, mode, devices, served, handlerDir, hpc, firings, mounted>>

\* fuse::mount(VfsFuse::new(union_fs | image_fs), &dir, &[]) is entered
MountServe ==
    /\ Running /\ pc \in {"mount_serve_union", "mount_serve_image"}
    /\ served' = IF pc = "mount_serve_union" THEN union_fs ELSE <<"image_fs">>
    /\ calls' = Append(calls, Call("fuse_mount", "dir", TRUE))
    /\ pc' = "mounting"
    /\ UNCHANGED <<root_mac, root_mac_str, host0, cmd, protect_integrity, key, host, enclave, result, exited,
                   exitStatus, out, mode, devices, union_fs, handlerDir, hpc,
                   firings, mounted>>

\* inside fuse::mount: the session attaches to dir, or fuse::mount fails
FuseAttach ==
    /\ Running /\ pc = "mounting"
    /\ \E ok \in BOOLEAN :
          /\ calls' = Append(calls, Call("fuse_attach", "dir", ok))
          /\ IF ok
             THEN /\ mounted' = "attached"
                  /\ pc' = "serving"
                  /\ UNCHANGED result
             ELSE /\ Abort("MountError")
                  /\ UNCHANGED mounted
    /\ UNCHANGED <<root_mac, root_mac_str, host0, cmd, protect_integrity, key, host, enclave, exited, exitStatus,
                   out, mode, devices, union_fs, served, handlerDir, hpc,
                   firings>>

\* the mount point is unmounted by other means than the handler
ExternalUnmount ==
    /\ Running /\ mounted = "attached"
    /\ mounted' = "detached"
    /\ UNCHANGED <<root_mac, root_mac_str, host0, cmd, protect_integrity, key, host, enclave, pc, result, exited,
                   exitStatus, out, mode, devices, calls, union_fs, served,
                   handlerDir, hpc, firings>>

\* ServeReturn taking the unmount for a failure of the session
ServeReturn_Err ==
    /\ Running /\ pc = "serving" /\ mounted = "detached"
    /\ pc' = "return"
    /\ result' = "MountError"
    /\ UNCHANGED <<root_mac, root_mac_str, host0, cmd, protect_integrity, key, host, enclave, exited, exitStatus,
                   out, mode, devices, calls, union_fs, served, handlerDir, hpc,
                   firings, mounted>>

\* fuse::mount returns once the mount point is unmounted
ServeReturn ==
    /\ Running /\ pc = "serving" /\ mounted = "detached"
    /\ pc' = "return"
    /\ result' = "Ok"
    /\ UNCHANGED <<root_mac, root_mac_str, host0, cmd, protect_integrity, key, host, enclave, exited, exitStatus,
                   out, mode, devices, calls, union_fs, served, handlerDir, hpc,
                   firings, mounted>>

----------------------------------------------------------------------------
(* The Ctrl-C handler, run by the signal thread once per delivered signal *)

\* sys_mount::unmount(mnt_dir, flags): fails unless the mount is attached
UnmountOutcomes(m) == IF m = "attached" THEN {TRUE, FALSE} ELSE {FALSE}

\* match sys_mount::unmount(&mnt_dir, UnmountFlags::empty())
HandlerFire ==
    /\ Running /\ handlerDir # "none" /\ hpc = "idle"
    /\ firings < MaxFirings
    /\ firings' = firings + 1
    /\ \E ok \in UnmountOutcomes(mounted) :
          /\ calls' = Append(calls, Call("unmount", handlerDir, ok))
          /\ IF ok
             THEN mounted' = "detached" /\ UNCHANGED hpc
             ELSE hpc' = "failed" /\ UNCHANGED mounted
    /\ UNCHANGED <<root_mac, root_mac_str, host0, cmd, protect_integrity, key, host, enclave, pc, result, exited,
                   exitStatus, out, mode, devices, union_fs, served, handlerDir>>

\* Err(why) => println!("failed to unmount ..")
HandlerReport ==
    /\ Running /\ hpc = "failed"
    /\ out' = Append(out, "unmount_failed")
    /\ hpc' = "reported"
    /\ UNCHANGED <<root_mac, root_mac_str, host0, cmd, protect_integrity, key, host, enclave, pc, result, exited,
                   exitStatus, mode, devices, calls, union_fs, served, handlerDir,
                   firings, mounted>>

\* exit(1)
HandlerExit ==
    /\ Running /\ hpc = "reported"
    /\ exited' = TRUE
    /\ exitStatus' = 1
    /\ hpc' = "exit"
    /\ UNCHANGED <<root_mac, root_mac_str, host0, cmd, protect_integrity, key, host, enclave, pc, result, out,
                   mode, devices, calls, union_fs, served, handlerDir, firings,
                   mounted>>

----------------------------------------------------------------------------
(* main returns: Ok(()) ends the process with status 0, Err(e) with 1 *)

\* MainExit losing the error of main
MainExit_AlwaysZero ==
    /\ Running /\ pc = "return"
    /\ exited' = TRUE
    /\ exitStatus' = 0
    /\ pc' = "done"
    /\ UNCHANGED <<root_mac, root_mac_str, host0, cmd, protect_integrity, key, host, enclave, result, out, mode,
                   devices, calls, union_fs, served, handlerDir, hpc, firings,
                   mounted>>

MainExit ==
    /\ Running /\ pc = "return"
    /\ exited' = TRUE
    /\ exitStatus' = IF result = "Ok" THEN 0 ELSE 1
    /\ pc' = "done"
    /\ UNCHANGED <<root_mac, root_mac_str, host0, cmd, protect_integrity, key, host, enclave, result, out, mode,
                   devices, calls, union_fs, served, handlerDir, hpc, firings,
                   mounted>>

----------------------------------------------------------------------------

Main ==
    \/ FromArgs \/ InitEnclave
    \/ ZipCreateDir \/ ZipResolve \/ ZipCreateFs \/ ZipCopy \/ ZipReport
    \/ UnzipResolve \/ UnzipOpen \/ UnzipCreateDir \/ UnzipCopy \/ UnzipReport
    \/ MountOpenImage \/ MountSetHandler \/ MountIsDir \/ MountOpenContainer
    \/ MountUnion \/ MountServe \/ FuseAttach \/ ServeReturn
    \/ MainExit

Handler == HandlerFire \/ HandlerReport \/ HandlerExit

Next == Main \/ Handler \/ ExternalUnmount

Spec == Init /\ [][Next]_vars

\* Threads that can take a step are scheduled; signals and outside
\* unmounts are up to the environment.
FairSpec ==
    /\ Spec
    /\ WF_vars(Main)
    /\ WF_vars(HandlerReport \/ HandlerExit)

----------------------------------------------------------------------------
(* Properties *)

CallIdx == 1..Len(calls)

Called(op) == \E i \in CallIdx : calls[i].op = op

CalledWith(op, arg, ok) == \E i \in CallIdx : calls[i] = Call(op, arg, ok)

MainEnded == pc \in {"return", "done"}

InitFailed == CalledWith("init_enclave", "enclave", FALSE)

\* a firing of the handler whose unmount succeeded / failed
UnmountSucceeded == \E i \in CallIdx : calls[i].op = "unmount" /\ calls[i].ok

FiringFailed == \E i \in CallIdx : calls[i].op = "unmount" /\ ~calls[i].ok

\* C1: whenever fuse::mount has been entered, a successful registration of
\* the Ctrl-C handler bound to the served mount point came before it, and
\* after a failed registration fuse::mount is never entered.
C1_ArmedBeforeServe ==
    /\ \A i \in CallIdx :
          calls[i].op = "fuse_mount" =>
             /\ \E j \in 1..(i - 1) : calls[j] = Call("set_handler", calls[i].arg, TRUE)
             /\ handlerDir = calls[i].arg
    /\ CalledWith("set_handler", "dir", FALSE) =>
          /\ ~Called("fuse_mount")
          /\ handlerDir = "none"
          /\ MainEnded

C1_Witness ==
    /\ pc = "serving" /\ mounted = "attached"
    /\ handlerDir = "dir" /\ Called("fuse_mount")

\* C2 (as claimed): once the session has attached and the trigger has then
\* issued an unmount request, the process ends with status zero.
C2_AlwaysExitsZero ==
    (/\ exited
     /\ \E i \in CallIdx, j \in CallIdx :
           /\ i < j
           /\ calls[i] = Call("fuse_attach", "dir", TRUE)
           /\ calls[j].op = "unmount" /\ calls[j].arg = "dir")
    => exitStatus = 0

\* C2 (amended): once an unmount request of the trigger has succeeded, the
\* process eventually terminates; unless some firing got an error from the
\* unmount facility, fuse::mount has then returned Ok and the status is 0.
C2_Rendezvous ==
    UnmountSucceeded ~>
       (/\ exited
        /\ ~FiringFailed => (pc = "done" /\ result = "Ok" /\ exitStatus = 0))

C2_Witness ==
    /\ UnmountSucceeded /\ ~FiringFailed
    /\ exited /\ pc = "done" /\ exitStatus = 0

\* C3 (as claimed): when a firing of the handler got an error from the unmount
\* facility, the process ends with a non-zero status, and no firing calls
\* unmount more than once.  (The report is printed by the handler just before
\* its exit(1), so a run that misses the status misses it as well.)
C3_FailureExitsNonZero ==
    /\ Cardinality({i \in CallIdx : calls[i].op = "unmount"}) <= firings
    /\ (exited /\ FiringFailed) => exitStatus # 0

\* C4: after a failed enclave initialisation nothing of any workflow happens:
\* no device, no change of the host, no handler, no serve call, and the
\* process ends with a non-zero status.
C4_NoWorkflowAfterInitFailure ==
    InitFailed =>
       /\ devices = <<>>
       /\ host = host0
       /\ handlerDir = "none"
       /\ served = <<>>
       /\ Len(calls) = 1
       /\ MainEnded /\ result = "EnclaveInitError"
       /\ exited => exitStatus # 0

C4_Witness == InitFailed /\ exited /\ exitStatus = 1

NoFlagNoKey == cmd \in {"zip", "unzip"} /\ ~protect_integrity /\ ~key.some

\* C5 (as claimed): zip / unzip with neither -p nor -k never reaches the
\* resolver, and creates no directory and no device.
C5_RejectedBeforeResolver ==
    NoFlagNoKey =>
       /\ ~Called("from_parameters")
       /\ host = host0
       /\ devices = <<>>

\* C5 (amended): zip / unzip with neither -p nor -k is accepted by the command
\* line: unless enclave initialisation or (zip) the creation of image fails
\* first, the resolver is invoked; no device is constructed before the
\* resolver has returned a mode, and in zip image was created before it.
C5_ResolverReached ==
    NoFlagNoKey =>
       /\ pc = "done" =>
             \/ InitFailed
             \/ CalledWith("create_dir", "image", FALSE)
             \/ Called("from_parameters")
       /\ devices # <<>> => CalledWith("from_parameters", cmd, TRUE)
       /\ (cmd = "zip" /\ Called("from_parameters")) =>
             /\ host0["image"] = "absent"
             /\ calls[2] = Call("create_dir", "image", TRUE)

C5_Witness ==
    /\ NoFlagNoKey /\ cmd = "zip"
    /\ Called("from_parameters")
    /\ host["image"] # host0["image"]

\* C6: zip into an image path that exists fails with AlreadyExists and leaves
\* the host unchanged: no mode, no device, no filesystem, no copy.
C6_ZipExistingImage ==
    (cmd = "zip" /\ host0["image"] # "absent") =>
       /\ host = host0
       /\ mode = NoMode
       /\ devices = <<>>
       /\ ~Called("from_parameters") /\ ~Called("sefs_create") /\ ~Called("zip_dir")
       /\ CalledWith("init_enclave", "enclave", TRUE) =>
             (pc = "zip" \/ (MainEnded /\ result = "AlreadyExists"))
       /\ exited => exitStatus # 0

C6_Witness ==
    /\ cmd = "zip" /\ host0["image"] = "dir_data"
    /\ result = "AlreadyExists" /\ exited

\* C7 (as claimed, for command lines that give -p or -k): unzip into a dir
\* path that exists ends with AlreadyExists.
C7_UnzipAlwaysAlreadyExists ==
    (/\ cmd = "unzip" /\ host0["dir"] # "absent"
     /\ protect_integrity \/ key.some
     /\ CalledWith("init_enclave", "enclave", TRUE)
     /\ MainEnded)
    => result = "AlreadyExists"

\* C7 (amended): unzip into a dir path that exists fails and leaves the host
\* unchanged, nothing being copied; the error is AlreadyExists when the
\* resolver and the open of image succeeded, and their error otherwise.
C7_UnzipExistingDir ==
    (cmd = "unzip" /\ host0["dir"] # "absent") =>
       /\ host = host0
       /\ ~Called("unzip_dir")
       /\ MainEnded =>
             /\ result # "Ok"
             /\ CalledWith("sefs_open", "image", TRUE) <=> result = "AlreadyExists"
       /\ exited => exitStatus # 0

C7_Witness ==
    /\ cmd = "unzip" /\ host0["dir"] = "dir_data"
    /\ result = "AlreadyExists" /\ exited

\* C8: when the resolver rejects a key, the workflow is over: no device has
\* been constructed and no filesystem created or opened.
C8_BadKeyBeforeDevice ==
    (\E i \in CallIdx : calls[i].op = "from_parameters" /\ ~calls[i].ok /\ key.some) =>
       /\ result = "InvalidKeyFormat" /\ MainEnded
       /\ devices = <<>>
       /\ ~Called("sefs_create") /\ ~Called("sefs_open")

C8_Witness ==
    /\ cmd = "unzip" /\ key = SomeKey(BadCharKey)
    /\ result = "InvalidKeyFormat" /\ exited

\* C9: the stack handed to fuse::mount is <<container_fs, image_fs>> exactly
\* when container is a directory and image_fs alone otherwise; a container
\* filesystem is opened only when container is a directory.
C9_ServedStack ==
    /\ Called("fuse_mount") =>
          served = IF IsDir(host0["container"])
                   THEN <<"container_fs", "image_fs">>
                   ELSE <<"image_fs">>
    /\ Called("fuse_mount") <=> served # <<>>
    /\ (\E i \in 1..Len(devices) : devices[i].path = "container")
          => IsDir(host0["container"])
    /\ Called("unionfs_new") => IsDir(host0["container"])

C9_Witness ==
    /\ pc = "serving"
    /\ served = <<"container_fs", "image_fs">>

\* C10: in mount the device over image is IntegrityOnly, the device over
\* container is EncryptAutoKey, and no device is EncryptWithKey.
C10_MountModesFixed ==
    cmd = "mount" =>
       \A i \in 1..Len(devices) :
          /\ devices[i].path = "image" => devices[i].mode = IntegrityOnly
          /\ devices[i].path = "container" => devices[i].mode = EncryptAutoKey
          /\ devices[i].path \in {"image", "container"}
          /\ devices[i].mode.tag # "EncryptWithKey"

C10_Witness ==
    /\ cmd = "mount" /\ Len(devices) = 2
    /\ devices[2].path = "container"

\* the calls made by the main thread (the handler thread makes "unmount")
MainCallIdx == {i \in CallIdx : calls[i].op # "unmount"}

\* a step of the workflow, or the enclave initialisation, has failed
StepFailed == \E i \in MainCallIdx : ~calls[i].ok

\* the workflow ran all of its steps: main is at the Ok(()) of its last line
WorkflowCompleted == result = "Ok"

\* C11 (as claimed): the exit status is zero exactly when the workflow ran
\* all of its steps to completion, and non-zero when a step failed.
C11_ZeroIffCompleted ==
    exited =>
       /\ exitStatus = 0 <=> WorkflowCompleted
       /\ StepFailed => exitStatus # 0

\* C11 (amended): the exit status is zero exactly when the workflow ran all
\* of its steps and main itself ended the process by returning Ok(()); it is
\* non-zero when a step failed and when the Ctrl-C handler ended the process
\* with exit(1), which can happen after the serve call has returned.
C11_ZeroIffMainReturnedOk ==
    exited =>
       /\ exitStatus = 0 <=> (WorkflowCompleted /\ pc = "done")
       /\ StepFailed => exitStatus # 0
       /\ hpc = "exit" => exitStatus # 0
       /\ WorkflowCompleted <=> ~StepFailed /\ MainEnded
       /\ cmd # "mount" => (exitStatus = 0 <=> WorkflowCompleted)

C11_Witness ==
    /\ exited /\ WorkflowCompleted
    /\ hpc = "exit" /\ exitStatus = 1

Printed(m) == \E i \in 1..Len(out) : out[i] = m

IsLowerHex(c) == \E i \in 1..16 : HexDigits[i] = c

\* C12: the rendering of n bytes is n groups of two lowercase hex digits, the
\* k-th group being the value of the k-th byte, joined by n - 1 single
\* dashes, with nothing before or after; no bytes give the empty string.
C12_RootMacRendering ==
    Printed("root_mac") =>
       LET n == Len(root_mac) IN
       /\ Len(root_mac_str) = IF n = 0 THEN 0 ELSE 3 * n - 1
       /\ \A k \in 1..n :
             /\ IsLowerHex(root_mac_str[3 * k - 2])
             /\ IsLowerHex(root_mac_str[3 * k - 1])
             /\ 16 * HexVal(root_mac_str[3 * k - 2])
                   + HexVal(root_mac_str[3 * k - 1]) = root_mac[k]
       /\ \A k \in 1..(n - 1) : root_mac_str[3 * k] = "-"

C12_Witness ==
    /\ Printed("root_mac")
    /\ root_mac = <<10, 255>>
    /\ root_mac_str = <<"0", "a", "-", "f", "f">>

\* C13: no call of the main thread is made twice on the same object, and a
\* failed call is the last one the main thread makes: main then returns the
\* error.
C13_NoRetry ==
    /\ \A i \in MainCallIdx, j \in MainCallIdx :
          i < j =>
             /\ calls[i].ok
             /\ <<calls[i].op, calls[i].arg>> # <<calls[j].op, calls[j].arg>>
    /\ StepFailed => (MainEnded /\ result \notin {"Ok", "none"})

C13_Witness ==
    /\ cmd = "unzip" /\ exited
    /\ Len(calls) = 3 /\ calls[3] = Call("sefs_open", "image", FALSE)
    /\ result = "CorruptImage"

\* C14: zip prints the root MAC exactly when protect_integrity was given,
\* with or without a key, and only after zip_dir succeeded; when zip_dir
\* fails neither the root MAC nor the success message is printed.
C14_DigestIffIntegrity ==
    /\ Printed("root_mac") =>
          /\ cmd = "zip" /\ protect_integrity
          /\ CalledWith("zip_dir", "dir", TRUE)
          /\ Printed("encrypt_ok")
    /\ (cmd = "zip" /\ WorkflowCompleted) =>
          (Printed("root_mac") <=> protect_integrity)
    /\ ~CalledWith("zip_dir", "dir", TRUE) =>
          /\ ~Printed("root_mac") /\ ~Printed("encrypt_ok")
          /\ root_mac = <<>> /\ root_mac_str = <<>>

C14_Witness ==
    /\ cmd = "zip" /\ protect_integrity /\ key = SomeKey(CanonicalKey)
    /\ Printed("root_mac") /\ exited

\* C15: unzip creates dir only after the image filesystem was opened: when
\* the resolver or the open fails, create_dir is not called and the host is
\* as it was.
C15_UnzipDirAfterOpen ==
    cmd = "unzip" =>
       /\ (\/ CalledWith("from_parameters", "unzip", FALSE)
           \/ CalledWith("sefs_open", "image", FALSE))
          => (host = host0 /\ ~Called("create_dir"))
       /\ (host # host0 \/ Called("create_dir")) =>
             /\ Len(calls) >= 4
             /\ calls[3] = Call("sefs_open", "image", TRUE)
             /\ calls[4].op = "create_dir"

C15_Witness ==
    /\ cmd = "unzip" /\ host0["dir"] = "absent"
    /\ CalledWith("sefs_open", "image", FALSE)
    /\ exited /\ host["dir"] = "absent"

\* C16: zip creates image before it calls the resolver and never removes it:
\* after a failed resolver or a failed SEFS::create the directory is still
\* there, and create_dir on that path can only answer AlreadyExists.
C16_ZipImageDirRemains ==
    cmd = "zip" =>
       /\ Called("from_parameters") =>
             /\ calls[2] = Call("create_dir", "image", TRUE)
             /\ calls[3].op = "from_parameters"
       /\ CalledWith("create_dir", "image", TRUE) => IsDir(host["image"])
       /\ (\/ CalledWith("from_parameters", "zip", FALSE)
           \/ CalledWith("sefs_create", "image", FALSE))
          => /\ host0["image"] = "absent"
             /\ IsDir(host["image"])
             /\ CreateDirOutcomes(host["image"]) = {"AlreadyExists"}

C16_Witness ==
    /\ cmd = "zip" /\ exited
    /\ CalledWith("sefs_create", "image", FALSE)
    /\ host0["image"] = "absent" /\ host["image"] = "dir_partial"

====
